---- MODULE Spec2Model ----
(***************************************************************************)
(* InvoiceGuard: the payment-state reconciliation of                       *)
(* utils/invoice_helpers.py and main.py, and the invoice/purchase-order    *)
(* join of utils/validation.py.                                            *)
(*                                                                         *)
(* Days are numbered 1, 2, ...; a due_date value d stands for a string in  *)
(* DATE_FORMAT that parses to day d.  order_id and customer_name values    *)
(* are non-numeric strings, which the CSV file of the payment log keeps    *)
(* unchanged when it is written and read back.                             *)
(*                                                                         *)
(* output/invoices.csv is extracted once and the purchase orders are one   *)
(* file, so the passes of one behaviour validate the same rows: the        *)
(* report is any report at the start and stays what it is.                 *)
(***************************************************************************)
EXTENDS Integers, Sequences, FiniteSets, TLC

VARIABLES
    log,               \* output/payment_log.csv: the persisted payment log
    today,             \* the calendar day of the latest pd.Timestamp.now()
    report,            \* validation_report_df, handed to every pass
    now_past,          \* the day process_past_due_invoices read in that pass
    past_due_entries,  \* what process_past_due_invoices returned, with rows
    todays_entries,    \* what process_todays_invoices had built, with rows
    calls,             \* the trigger_payment invocations of that pass
    status,            \* "none" | "completed" | "aborted" for that pass
    existing,          \* existing_log_df as that pass loaded it
    rerun,             \* that pass repeated the completed pass before it
    invoices_df,       \* validate_invoices: the invoice line items read
    po_df,             \* validate_invoices: the purchase orders read
    validation,        \* validate_invoices: its outcome
    metrics,           \* render_tab1: what calculate_invoice_metrics returned
    joined,            \* the classifier: one row of merged_df
    classified,        \* the classifier: what lines 46-58 made of that row
    field_comparison,  \* build_field_comparison: the table of that row
    api_keys,          \* GeminiMultiKeyClient: the number of keys
    current_key_index, \* GeminiMultiKeyClient: the rotation cursor
    content_call,      \* generate_content: the call in progress or returned
    folder,            \* the files of data/Invoice/ and what parsing yields
    invoices_csv,      \* output/invoices.csv: absent, or its rows
    extraction,        \* analyze_invoices: the latest run
    runs,              \* render_tab1: how many times it has run
    reported,          \* render_tab1: the files of its validation report
    service,           \* a genAI caller and what generate_content gave it
    outcome,           \* what that caller did with it
    request,           \* trigger_payment: arguments and what the POST does
    reply              \* trigger_payment: what it returned or raised

payVars == <<log, today, report, now_past, past_due_entries, todays_entries,
             calls, status, existing, rerun>>

valVars == <<invoices_df, po_df, validation>>

rowVars == <<joined, classified, field_comparison>>

clientVars == <<api_keys, current_key_index, content_call>>

extractVars == <<folder, invoices_csv, extraction, runs, reported>>

callerVars == <<service, outcome>>

postVars == <<request, reply>>

vars == <<payVars, valVars, metrics, rowVars, clientVars, extractVars,
          callerVars, postVars>>

\* ---------------------------------------------------------------- bounds
MaxRows == 2
MaxDay == 2

\* ------------------------------------------------------- input domains
Parties == {<<"O1", "A">>, <<"O1", "B">>, <<"O2", "A">>}

TotalOf(customer_name) == IF customer_name = "A" THEN 100 ELSE 250

Days == 1..MaxDay

ReportRows ==
    {[order_id |-> p[1], customer_name |-> p[2], due_date |-> d,
      total |-> TotalOf(p[2]), validation_status |-> s] :
        p \in Parties, d \in Days, s \in {"VALID", "INVALID"}}

SeqsUpTo(S, n) == UNION {[1..k -> S] : k \in 0..n}

Reports == SeqsUpTo(ReportRows, MaxRows)

\* The bodies the payment processor can answer with: a complete one, and
\* one that lacks every field but status.
Responses ==
    {[transaction_id |-> "TXN-10000", status |-> "SUCCESS",
      timestamp |-> "T1", message |-> "Payment triggered"],
     [status |-> "FAILED"]}

PostOutcomes ==
    {[kind |-> "2xx", json |-> r] : r \in Responses}
        \cup {[kind |-> "4xx5xx"], [kind |-> "transport"]}

GenOutcomes == {"text", "None"}

\* ------------------------------------------------------------ helpers
Identity(r) == <<r.order_id, r.customer_name>>

Get(d, k) == IF k \in DOMAIN d THEN d[k] ELSE ""

Entries(emitted) == [i \in 1..Len(emitted) |-> emitted[i].entry]

\* ---------------------------------------------- utils/payment_engine.py
\* requests.post follows a redirection that names a location, so a "3xx"
\* answer is one that names none (a 300, a 304); raise_for_status raises
\* for the status codes 400 to 599 only, and a failure of the transport is
\* a RequestException as well.
trigger_payment(order_id, customer_name, amount, due_date, post) ==
    IF post.kind \in {"2xx", "3xx"}
    THEN [kind |-> "return", body |-> post.json]
    ELSE [kind |-> "RuntimeError"]

\* ------------------------------------------------ genAI/justification.py
generate_payment_justification(invoice_row, gen) ==
    IF gen = "None"
    THEN [kind |-> "RuntimeError"]
    ELSE [kind |-> "return", text |-> "Payment approved"]

\* ---------------------------------------------- utils/invoice_helpers.py
PreviousEntry(row) ==
    [order_id |-> row.order_id,
     customer_name |-> row.customer_name,
     due_date |-> row.due_date,
     amount |-> row.total,
     transaction_id |-> "PREVIOUSLY_PAID",
     status |-> "SUCCESS",
     timestamp |-> "NOW",
     message |-> "Auto-paid earlier",
     justification |-> "Previously paid for past due invoice",
     payment_mode |-> "PreviouslyPaid"]

\* an entry that reports success whatever the processor answered
AutoEntry_fixed_status(row, payment_response, justification) ==
    [order_id |-> row.order_id,
     customer_name |-> row.customer_name,
     due_date |-> row.due_date,
     amount |-> row.total,
     transaction_id |-> Get(payment_response, "transaction_id"),
     status |-> "SUCCESS",
     timestamp |-> Get(payment_response, "timestamp"),
     message |-> Get(payment_response, "message"),
     justification |-> justification,
     payment_mode |-> "Auto"]

AutoEntry(row, payment_response, justification) ==
    [order_id |-> row.order_id,
     customer_name |-> row.customer_name,
     due_date |-> row.due_date,
     amount |-> row.total,
     transaction_id |-> Get(payment_response, "transaction_id"),
     status |-> Get(payment_response, "status"),
     timestamp |-> Get(payment_response, "timestamp"),
     message |-> Get(payment_response, "message"),
     justification |-> justification,
     payment_mode |-> "Auto"]

\* What output/payment_log.csv holds before the first pass: nothing, or the
\* entry with which a pass on day 1 over an earlier report paid an order.
EarlierLogs ==
    {<<>>,
     <<AutoEntry([order_id |-> "O1", customer_name |-> "A", due_date |-> 1,
                  total |-> TotalOf("A")],
                 [transaction_id |-> "TXN-10000", status |-> "SUCCESS",
                  timestamp |-> "T1", message |-> "Payment triggered"],
                 "Payment approved")>>}

PaymentCall(row, result) ==
    [order_id |-> row.order_id, customer_name |-> row.customer_name,
     amount |-> row.total, due_date |-> row.due_date, result |-> result]

NoService == [post |-> [kind |-> "unused"], gen |-> "unused"]

\* create_payment_log_entry(row, transaction_type); out is what the two
\* external services do when the 'auto' branch calls them.
create_payment_log_entry(row, transaction_type, out) ==
    IF transaction_type = "previous"
    THEN [raised |-> FALSE, called |-> <<>>, entry |-> PreviousEntry(row)]
    ELSE LET payment_response ==
                 trigger_payment(row.order_id, row.customer_name, row.total,
                                 row.due_date, out.post)
             invoice_row ==
                 [order_id |-> row.order_id,
                  customer_name |-> row.customer_name,
                  amount |-> row.total, due_date |-> row.due_date]
             justification ==
                 generate_payment_justification(invoice_row, out.gen)
             called == <<PaymentCall(row, payment_response)>>
         IN  IF payment_response.kind = "RuntimeError"
             THEN [raised |-> TRUE, called |-> called]
             ELSE IF justification.kind = "RuntimeError"
                  THEN [raised |-> TRUE, called |-> called]
                  ELSE [raised |-> FALSE, called |-> called,
                        entry |-> AutoEntry(row, payment_response.body,
                                            justification.text)]

\* a lookup that only counts the entries of payments made by the processor
already_paid_auto_only(existing_log_df, row) ==
    \E i \in 1..Len(existing_log_df) :
        /\ existing_log_df[i].order_id = row.order_id
        /\ existing_log_df[i].customer_name = row.customer_name
        /\ existing_log_df[i].payment_mode = "Auto"

already_paid(existing_log_df, row) ==
    \E i \in 1..Len(existing_log_df) :
        /\ existing_log_df[i].order_id = row.order_id
        /\ existing_log_df[i].customer_name = row.customer_name

\* a date filter that misses the rows due the day before
IsPastDue_off_by_one(row, now) ==
    row.due_date + 1 < now /\ row.validation_status = "VALID"

IsPastDue(row, now) ==
    row.due_date < now /\ row.validation_status = "VALID"

IsDueToday(row, now) == row.due_date = now

\* a loop that pays whatever is due today
IsValid_any(row) == row.validation_status \in {"VALID", "INVALID"}

\* line 84: the status test inside the loop of process_todays_invoices
IsValid(row) == row.validation_status = "VALID"

RECURSIVE past_due_loop(_, _, _, _, _)
past_due_loop(validation_report_df, existing_log_df, now, i, acc) ==
    IF i > Len(validation_report_df) THEN acc
    ELSE LET row == validation_report_df[i]
             made == create_payment_log_entry(row, "previous", NoService)
         IN  past_due_loop(validation_report_df, existing_log_df, now, i + 1,
                 IF IsPastDue(row, now) /\ ~already_paid(existing_log_df, row)
                 THEN Append(acc, [row |-> i, entry |-> made.entry])
                 ELSE acc)

process_past_due_invoices(validation_report_df, existing_log_df, now) ==
    past_due_loop(validation_report_df, existing_log_df, now, 1, <<>>)

\* The loop of process_todays_invoices; outs[k] is what the services do on
\* the k-th call of create_payment_log_entry.  An exception leaves the loop.
RECURSIVE todays_loop(_, _, _, _, _, _)
todays_loop(validation_report_df, existing_log_df, now, outs, i, acc) ==
    IF i > Len(validation_report_df) \/ acc.raised THEN acc
    ELSE LET row == validation_report_df[i]
             made == create_payment_log_entry(row, "auto",
                                              outs[Len(acc.calls) + 1])
         IN  todays_loop(validation_report_df, existing_log_df, now, outs,
                 i + 1,
                 IF /\ IsDueToday(row, now)
                    /\ IsValid(row)
                    /\ ~already_paid(existing_log_df, row)
                 THEN [raised |-> made.raised,
                       calls |-> Append(acc.calls,
                                        [row |-> i, call |-> made.called[1]]),
                       entries |-> IF made.raised THEN acc.entries
                                   ELSE Append(acc.entries,
                                            [row |-> i, entry |-> made.entry])]
                 ELSE acc)

process_todays_invoices(validation_report_df, existing_log_df, now, outs) ==
    todays_loop(validation_report_df, existing_log_df, now, outs, 1,
                [raised |-> FALSE, calls |-> <<>>, entries |-> <<>>])

\* ----------------------------------------------------------- main.py
load_existing_payment_log == log

\* a merge that puts the new entries first
merge_log_prepend(existing_log_df, all_entries) ==
    IF all_entries # <<>>
    THEN IF existing_log_df = <<>>
         THEN all_entries
         ELSE all_entries \o existing_log_df
    ELSE existing_log_df

\* lines 84-90 of process_payments_and_past_due
merge_log(existing_log_df, all_entries) ==
    IF all_entries # <<>>
    THEN IF existing_log_df = <<>>
         THEN all_entries
         ELSE existing_log_df \o all_entries
    ELSE existing_log_df

\* The rows of a report that reach create_payment_log_entry(row, 'auto').
Selected(validation_report_df, existing_log_df, now) ==
    {i \in 1..Len(validation_report_df) :
        /\ IsDueToday(validation_report_df[i], now)
        /\ IsValid(validation_report_df[i])
        /\ ~already_paid(existing_log_df, validation_report_df[i])}

\* What the services may do over n calls: every call before the last one
\* made succeeds, since a failure ends the loop.
Outcomes == {[post |-> p, gen |-> g] : p \in PostOutcomes, g \in GenOutcomes}

OkOutcomes == {o \in Outcomes : o.post.kind = "2xx" /\ o.gen = "text"}

\* The justification service is only asked once the payment has returned.
FailOutcomes ==
    {o \in Outcomes : \/ o.post.kind # "2xx" /\ o.gen = "text"
                      \/ o.post.kind = "2xx" /\ o.gen = "None"}

ServiceRuns(n) ==
    IF n = 0 THEN {<<>>}
    ELSE [1..n -> OkOutcomes]
         \cup UNION {{Append(oks, f) : oks \in [1..k -> OkOutcomes],
                                      f \in FailOutcomes} : k \in 0..(n - 1)}

process_payments_and_past_due(validation_report_df, now1, now2, outs) ==
    LET existing_log_df == load_existing_payment_log
        past == process_past_due_invoices(validation_report_df,
                                          existing_log_df, now1)
        tod == process_todays_invoices(validation_report_df,
                                       existing_log_df, now2, outs)
        all_entries == Entries(past) \o Entries(tod.entries)
    IN  /\ log' = IF tod.raised THEN log
                  ELSE merge_log(existing_log_df, all_entries)
        /\ today' = now2
        /\ report' = validation_report_df
        /\ now_past' = now1
        /\ past_due_entries' = past
        /\ todays_entries' = tod.entries
        /\ calls' = tod.calls
        /\ status' = IF tod.raised THEN "aborted" ELSE "completed"
        /\ existing' = existing_log_df
        /\ rerun' = /\ status = "completed"
                    /\ now_past = today /\ now1 = today /\ now2 = today

Pass ==
    \E now1 \in today..MaxDay :
      \E now2 \in {now1, now1 + 1} \cap Days :
        \E outs \in ServiceRuns(Cardinality(Selected(report, log, now2))) :
            /\ process_payments_and_past_due(report, now1, now2, outs)
            /\ UNCHANGED <<valVars, metrics, rowVars, clientVars,
                           extractVars, callerVars, postVars>>

\* ------------------------------------------------- utils/validation.py
\* Amounts and rates are in cents.  NaN stands for a missing cell.
NaN == -1

MergeKeys ==
    {<<1, "O1", "A">>, <<2, "O1", "A">>, <<1, "O1", "B">>}

\* One row of output/invoices.csv: a line item of an invoice.
LineItems ==
    {[invoice_number |-> k[1], order_id |-> k[2], customer_name |-> k[3],
      due_date |-> 1, total |-> TotalOf(k[3]),
      quantity |-> q, rate |-> 6311, amount |-> a] :
        k \in MergeKeys, q \in {100, 150}, a \in {631100, 946650}}

\* One row of data/purchase_orders.csv.
PurchaseOrders ==
    {[invoice_number |-> k[1], order_id |-> k[2], customer_name |-> k[3],
      quantity |-> q, rate |-> r, expected_amount |-> e] :
        k \in MergeKeys, q \in {100, NaN}, r \in {6311, 7000},
        e \in {631100, 946650}}

MaxLines == 2
MaxOrders == 2

\* a test that takes the order for missing only when all its cells are
_check_missing_po_all_cells(row) ==
    row.quantity_po = NaN /\ row.rate_po = NaN /\ row.expected_amount = NaN

_check_missing_po(row) ==
    row.quantity_po = NaN \/ row.rate_po = NaN \/ row.expected_amount = NaN

\* a list that names the rate before the quantity
_get_validation_reasons_rate_first(row) ==
    (IF row.rate_inv # row.rate_po THEN <<"Rate Mismatch">> ELSE <<>>)
    \o (IF row.quantity_inv # row.quantity_po
        THEN <<"Quantity Mismatch">> ELSE <<>>)
    \o (IF row.amount > row.expected_amount THEN <<"Overbilling">>
        ELSE IF row.amount < row.expected_amount
             THEN <<"Amount Mismatch">> ELSE <<>>)

_get_validation_reasons(row) ==
    (IF row.quantity_inv # row.quantity_po
     THEN <<"Quantity Mismatch">> ELSE <<>>)
    \o (IF row.rate_inv # row.rate_po THEN <<"Rate Mismatch">> ELSE <<>>)
    \o (IF row.amount > row.expected_amount THEN <<"Overbilling">>
        ELSE IF row.amount < row.expected_amount
             THEN <<"Amount Mismatch">> ELSE <<>>)

\* ', '.join(reasons), for a list that is not empty
RECURSIVE Join(_)
Join(reasons) ==
    IF Len(reasons) = 1 THEN reasons[1]
    ELSE reasons[1] \o ", " \o Join(Tail(reasons))

KeyOf(r) == <<r.invoice_number, r.order_id, r.customer_name>>

KeysUnique(df) ==
    \A i, j \in 1..Len(df) : i # j => KeyOf(df[i]) # KeyOf(df[j])

\* One row of the left join: the invoice line with the columns of the
\* purchase order of its key, or with missing cells when there is none.
MergedRow(inv, pos) ==
    LET hits == {j \in 1..Len(pos) : KeyOf(pos[j]) = KeyOf(inv)}
        po == IF hits = {}
              THEN [quantity |-> NaN, rate |-> NaN, expected_amount |-> NaN]
              ELSE pos[CHOOSE j \in hits : TRUE]
    IN  [invoice_number_inv |-> inv.invoice_number,
         order_id |-> inv.order_id,
         customer_name |-> inv.customer_name,
         due_date |-> inv.due_date,
         total |-> inv.total,
         quantity_inv |-> inv.quantity,
         quantity_po |-> po.quantity,
         rate_inv |-> inv.rate,
         rate_po |-> po.rate,
         amount |-> inv.amount,
         expected_amount |-> po.expected_amount]

\* a merge that takes one of the purchase orders that share a key
merge_any_order(invoices, pos) ==
    IF ~KeysUnique(invoices)
    THEN [kind |-> "MergeError"]
    ELSE [kind |-> "frame",
          rows |-> [i \in 1..Len(invoices) |-> MergedRow(invoices[i], pos)]]

\* pd.merge(how='left', validate='one_to_one'): the keys must be unique in
\* the left and in the right frame, or the merge raises MergeError.
merge(invoices, pos) ==
    IF ~KeysUnique(invoices) \/ ~KeysUnique(pos)
    THEN [kind |-> "MergeError"]
    ELSE [kind |-> "frame",
          rows |-> [i \in 1..Len(invoices) |-> MergedRow(invoices[i], pos)]]

\* a loop that forgets to set the status of a row that has reasons
Classified_status_kept(row) ==
    LET reasons == IF _check_missing_po(row) THEN <<"Missing PO">>
                   ELSE _get_validation_reasons(row)
    IN  [f \in DOMAIN row \cup {"validation_result", "validation_status"} |->
            IF f = "validation_result"
            THEN (IF reasons # <<>> THEN Join(reasons) ELSE "Match")
            ELSE IF f = "validation_status"
                 THEN "VALID"
                 ELSE row[f]]

\* lines 43-58: the result and the status of one row of merged_df
Classified(row) ==
    LET reasons == IF _check_missing_po(row) THEN <<"Missing PO">>
                   ELSE _get_validation_reasons(row)
    IN  [f \in DOMAIN row \cup {"validation_result", "validation_status"} |->
            IF f = "validation_result"
            THEN (IF reasons # <<>> THEN Join(reasons) ELSE "Match")
            ELSE IF f = "validation_status"
                 THEN (IF reasons # <<>> THEN "INVALID" ELSE "VALID")
                 ELSE row[f]]

validate_invoices(invoices, pos) ==
    LET merged_df == merge(invoices, pos)
    IN  IF merged_df.kind = "MergeError" THEN merged_df
        ELSE [kind |-> "report",
              rows |-> [i \in 1..Len(merged_df.rows) |->
                            Classified(merged_df.rows[i])]]

\* The rows the join can hand to the loop of lines 46-58: an invoice line
\* beside the cells of a purchase order, any of which may be missing.
JoinedRows ==
    {[invoice_number_inv |-> 1, order_id |-> "O1", customer_name |-> "A",
      due_date |-> 1, total |-> TotalOf("A"),
      quantity_inv |-> qi, quantity_po |-> qp,
      rate_inv |-> ri, rate_po |-> rp,
      amount |-> a, expected_amount |-> e] :
        qi \in {100, 150}, qp \in {100, 150, NaN},
        ri \in {6311, 7000}, rp \in {6311, 7000, NaN},
        a \in {631100, 946650}, e \in {631100, 946650, NaN}}

\* One turn of the loop of lines 46-58.
Classify ==
    /\ classified.kind = "none"
    /\ classified' = [kind |-> "row", row |-> Classified(joined.row)]
    /\ UNCHANGED <<joined, field_comparison>>
    /\ UNCHANGED <<payVars, valVars, metrics, clientVars, extractVars,
                   callerVars, postVars>>

\* render_tab1, lines 112-114: the report of the two files read
Validate ==
    /\ validation.kind = "none"
    /\ validation' = validate_invoices(invoices_df, po_df)
    /\ UNCHANGED <<invoices_df, po_df>>
    /\ UNCHANGED <<payVars, metrics, rowVars, clientVars, extractVars,
                   callerVars, postVars>>

\* ------------------------------------- render_tab1 of main.py, lines 111-121
\* The keys, invoice lines and purchase orders of the two files it reads.
Tab1Keys == {<<1, "O1", "A">>, <<1, "O1", "B">>}

Tab1Items ==
    {[invoice_number |-> k[1], order_id |-> k[2], customer_name |-> k[3],
      due_date |-> d, total |-> TotalOf(k[3]),
      quantity |-> 100, rate |-> 6311, amount |-> 631100] :
        k \in Tab1Keys, d \in Days}

\* The order of O1/A agrees with its invoice line or not, that of O1/B does.
Tab1Orders ==
    {[invoice_number |-> 1, order_id |-> "O1", customer_name |-> "A",
      quantity |-> 100, rate |-> 6311, expected_amount |-> e] :
        e \in {631100, 946650}}
    \cup {[invoice_number |-> 1, order_id |-> "O1", customer_name |-> "B",
           quantity |-> 100, rate |-> 6311, expected_amount |-> 631100]}

\* a count of the valid rows that takes every row for valid
calculate_invoice_metrics_all_valid(validation_report_df, existing_payment_log_df, now) ==
    LET total_invoices == Len(validation_report_df)
        valid_invoices == Len(validation_report_df)
        flagged_invoices == total_invoices - valid_invoices
    IN  [kind |-> "metrics",
         total_invoices |-> total_invoices,
         valid_invoices |-> valid_invoices,
         flagged_invoices |-> flagged_invoices,
         paid_today_invoices |-> 0,
         over_due_unpaid_invoices |-> 0]

\* utils/invoice_helpers.py; now is the day its pd.Timestamp.now() reads
calculate_invoice_metrics(validation_report_df, existing_payment_log_df, now) ==
    LET total_invoices == Len(validation_report_df)
        valid_invoices ==
            Cardinality({i \in 1..Len(validation_report_df) :
                validation_report_df[i].validation_status = "VALID"})
        flagged_invoices == total_invoices - valid_invoices
        paid_today_invoices ==
            Cardinality({i \in 1..Len(existing_payment_log_df) :
                /\ existing_payment_log_df[i].due_date = now
                /\ existing_payment_log_df[i].status = "SUCCESS"})
        over_due_unpaid_invoices ==
            Cardinality({i \in 1..Len(validation_report_df) :
                /\ validation_report_df[i].due_date < now
                /\ validation_report_df[i].validation_status = "INVALID"})
    IN  [kind |-> "metrics",
         total_invoices |-> total_invoices,
         valid_invoices |-> valid_invoices,
         flagged_invoices |-> flagged_invoices,
         paid_today_invoices |-> paid_today_invoices,
         over_due_unpaid_invoices |-> over_due_unpaid_invoices]

\* Lines 112-121, run once.  A MergeError of line 114, and an exception of
\* the pass of line 117, leave render_tab1 at once.  The metrics are
\* computed on the day on which the pass ended.
render_tab1 ==
    LET validation_report_df == validate_invoices(invoices_df, po_df)
    IN  /\ validation.kind = "none"
        /\ validation' = validation_report_df
        /\ UNCHANGED <<invoices_df, po_df>>
        /\ IF validation_report_df.kind = "MergeError"
           THEN UNCHANGED <<payVars, metrics>>
           ELSE \E now1 \in today..MaxDay :
                  \E now2 \in {now1, now1 + 1} \cap Days :
                    \E outs \in ServiceRuns(Cardinality(
                            Selected(validation_report_df.rows, log, now2))) :
                        /\ process_payments_and_past_due(
                               validation_report_df.rows, now1, now2, outs)
                        /\ metrics' =
                               IF status' = "aborted" THEN metrics
                               ELSE calculate_invoice_metrics(
                                        validation_report_df.rows, log', now2)

Tab1 ==
    /\ render_tab1
    /\ UNCHANGED <<rowVars, clientVars, extractVars, callerVars, postVars>>

\* What output/validation_report.csv holds before the run: nothing, or the
\* report of an earlier run that found no purchase order.
EarlierReports(invoices) ==
    LET earlier == validate_invoices(invoices, <<>>)
    IN  IF earlier.kind = "report" THEN {<<>>, earlier.rows} ELSE {<<>>}

\* ------------------------------------------------ utils/gemini_client.py
DefaultMaxRetries == 3

MaxKeys == 4
MaxCalls == 2

\* a rotation that runs off the end of the pool
rotate_key_no_wrap(index, n) == index + 1

rotate_key(index, n) == (index + 1) % n

\* a loop that runs once more than range(max_retries)
LoopEnds_one_late(g) == Len(g.tried) > g.max_retries

\* for _ in range(max_retries) has run out
LoopEnds(g) == Len(g.tried) >= g.max_retries

\* generate_content(prompt, max_retries) is entered.
generate_content ==
    /\ content_call.pc # "loop"
    /\ content_call.call < MaxCalls
    /\ \E max_retries \in 0..DefaultMaxRetries :
          content_call' =
              [pc |-> "loop", call |-> content_call.call + 1,
               max_retries |-> max_retries, tried |-> <<>>,
               result |-> [kind |-> "pending"]]
    /\ UNCHANGED <<api_keys, current_key_index>>
    /\ UNCHANGED <<payVars, valVars, metrics, rowVars, extractVars,
                   callerVars, postVars>>

\* Lines 52-58: the model of the current key answers, and its text is
\* returned.  The text of an answer names the call and the attempt.
AttemptSucceeds ==
    /\ content_call.pc = "loop"
    /\ ~LoopEnds(content_call)
    /\ content_call' =
          [content_call EXCEPT
              !.tried = Append(@, [key |-> current_key_index, ok |-> TRUE]),
              !.result = [kind |-> "ResponseWrapper",
                          text |-> <<content_call.call,
                                     Len(content_call.tried) + 1>>],
              !.pc = "returned"]
    /\ UNCHANGED <<api_keys, current_key_index>>
    /\ UNCHANGED <<payVars, valVars, metrics, rowVars, extractVars,
                   callerVars, postVars>>

\* Lines 60-63: the attempt raises; the key is rotated and the loop goes on.
AttemptFails ==
    /\ content_call.pc = "loop"
    /\ ~LoopEnds(content_call)
    /\ content_call' =
          [content_call EXCEPT
              !.tried = Append(@, [key |-> current_key_index, ok |-> FALSE])]
    /\ current_key_index' = rotate_key(current_key_index, api_keys)
    /\ UNCHANGED api_keys
    /\ UNCHANGED <<payVars, valVars, metrics, rowVars, extractVars,
                   callerVars, postVars>>

\* Line 65: the loop is over.
ReturnNone ==
    /\ content_call.pc = "loop"
    /\ LoopEnds(content_call)
    /\ content_call' = [content_call EXCEPT !.result = [kind |-> "None"],
                                            !.pc = "returned"]
    /\ UNCHANGED <<api_keys, current_key_index>>
    /\ UNCHANGED <<payVars, valVars, metrics, rowVars, extractVars,
                   callerVars, postVars>>

\* ------------------------------------------- analyze_invoices of main.py
MaxFiles == 2

FileNames == {"a.pdf", "b.pdf", "c.pdf", "notes.txt"}

IsPdf(pdf_file) == pdf_file # "notes.txt"

\* What os.listdir can return: distinct names, in any order.
Folders ==
    {f \in SeqsUpTo(FileNames, MaxFiles) :
        \A i, j \in 1..Len(f) : i # j => f[i] # f[j]}

\* The item_details of the invoice of a file, when the service extracts it.
ItemDetails(pdf_file) ==
    IF pdf_file = "a.pdf" THEN <<"item1", "item2">>
    ELSE IF pdf_file = "b.pdf" THEN <<"item1">>
    ELSE <<>>

\* What parse_invoice_with_genai does for one file: it returns the invoice,
\* returns None, or raises ValueError.
ParseOutcomes == {"dict", "None", "ValueError"}

\* lines 49-56: one row per item
Flatten(pdf_file) ==
    [k \in 1..Len(ItemDetails(pdf_file)) |->
        [file_name |-> pdf_file, item_name |-> ItemDetails(pdf_file)[k]]]

\* The loop of lines 39-56; parses[i] is what parsing file i yields.
RECURSIVE listdir_loop(_, _, _, _)
listdir_loop(files, parses, i, acc) ==
    IF i > Len(files) \/ acc.kind # "loop" THEN acc
    ELSE listdir_loop(files, parses, i + 1,
            IF ~IsPdf(files[i]) THEN acc
            ELSE IF parses[i] = "ValueError"
                 THEN [acc EXCEPT !.kind = "ValueError",
                                  !.parsed = Append(@, i)]
                 ELSE IF parses[i] = "None"
                      THEN [acc EXCEPT !.kind = "break",
                                       !.parsed = Append(@, i)]
                      ELSE [acc EXCEPT
                               !.parsed = Append(@, i),
                               !.parsed_invoices = @ \o Flatten(files[i])])

\* an extraction that writes no file when it stopped early
analyze_invoices_no_partial(files, parses) ==
    LET run == listdir_loop(files, parses, 1,
                   [kind |-> "loop", parsed |-> <<>>,
                    parsed_invoices |-> <<>>])
    IN  IF run.kind \in {"ValueError", "break"}
        THEN [kind |-> "ValueError", parsed |-> run.parsed]
        ELSE [kind |-> "return", parsed |-> run.parsed,
              invoices_df |-> run.parsed_invoices]

\* analyze_invoices(pdf_folder): what it leaves in output/invoices.csv, or
\* the exception that left it before line 59.
analyze_invoices(files, parses) ==
    LET run == listdir_loop(files, parses, 1,
                   [kind |-> "loop", parsed |-> <<>>,
                    parsed_invoices |-> <<>>])
    IN  IF run.kind = "ValueError"
        THEN [kind |-> "ValueError", parsed |-> run.parsed]
        ELSE [kind |-> "return", parsed |-> run.parsed,
              invoices_df |-> run.parsed_invoices]

\* render_tab1, lines 100-101.
Extract ==
    /\ ~invoices_csv.exists
    /\ \E parses \in [1..Len(folder) -> ParseOutcomes] :
          LET done == analyze_invoices(folder, parses)
          IN  /\ extraction' = [kind |-> done.kind, parses |-> parses,
                                parsed |-> done.parsed]
              /\ invoices_csv' =
                     IF done.kind = "return"
                     THEN [exists |-> TRUE, rows |-> done.invoices_df]
                     ELSE invoices_csv
    /\ UNCHANGED <<folder, runs, reported>>
    /\ UNCHANGED <<payVars, valVars, metrics, rowVars, clientVars,
                   callerVars, postVars>>

\* ------------------- genAI/parser.py, risk_recommender.py, region_summarizer.py
MaxTokens == 3

\* A response text is a sequence of pieces: the fence of three backquotes
\* followed by json, the fence of three backquotes alone, a JSON value, and
\* text that is no JSON.
Pieces == {"fence-json", "fence", "{}", "x"}

Texts == SeqsUpTo(Pieces, MaxTokens)

ServiceResponses ==
    {[kind |-> "None"]} \cup {[kind |-> "text", text |-> t] : t \in Texts}

Callers ==
    {"parse_invoice_with_genai", "generate_risk_recommendation",
     "summarize_regions"}

\* text.replace(old, '') for the pieces of old
Without(text, old) == SelectSeq(text, LAMBDA p : p \notin old)

\* replacing the plain fence by '' leaves the letters json of a json fence
Unfenced(text) ==
    LET kept == Without(text, {"fence"})
    IN  [i \in 1..Len(kept) |->
            IF kept[i] = "fence-json" THEN "json" ELSE kept[i]]

\* the if/elif that removes the markdown fences
CleanUp(json_output) ==
    IF json_output # <<>> /\ json_output[1] = "fence-json"
    THEN Without(json_output, {"fence-json", "fence"})
    ELSE IF json_output # <<>> /\ json_output[1] = "fence"
         THEN Unfenced(json_output)
         ELSE json_output

\* json.loads accepts one JSON value and nothing else
json_loads(json_output) ==
    IF json_output = <<"{}">> THEN [kind |-> "return", value |-> "dict"]
    ELSE [kind |-> "JSONDecodeError"]

parse_invoice_with_genai(response) ==
    IF response.kind = "None" THEN [kind |-> "return", value |-> "None"]
    ELSE LET invoice_data == json_loads(CleanUp(response.text))
         IN  IF invoice_data.kind = "JSONDecodeError"
             THEN [kind |-> "ValueError",
                   message |-> "Failed to parse JSON response from Gemini API"]
             ELSE invoice_data

generate_risk_recommendation(response) ==
    IF response.kind = "None"
    THEN [kind |-> "ValueError",
          message |-> "Failed to get response from Gemini API."]
    ELSE LET recommendation_dict == json_loads(CleanUp(response.text))
         IN  IF recommendation_dict.kind = "JSONDecodeError"
             THEN [kind |-> "ValueError",
                   message |-> "Generated content is not valid JSON."]
             ELSE recommendation_dict

summarize_regions(response) ==
    IF response.kind = "None"
    THEN [kind |-> "RuntimeError",
          message |->
              "Failed to generate regional summary after multiple attempts."]
    ELSE LET summary_dict == json_loads(CleanUp(response.text))
         IN  IF summary_dict.kind = "JSONDecodeError"
             THEN [kind |-> "ValueError",
                   message |-> "Generated content is not valid JSON."]
             ELSE summary_dict

CallerOutcome(caller, response) ==
    IF caller = "parse_invoice_with_genai"
    THEN parse_invoice_with_genai(response)
    ELSE IF caller = "generate_risk_recommendation"
         THEN generate_risk_recommendation(response)
         ELSE summarize_regions(response)

\* One of the three callers runs on what generate_content gave it.
Call ==
    /\ outcome.kind = "none"
    /\ outcome' = CallerOutcome(service.caller, service.response)
    /\ UNCHANGED service
    /\ UNCHANGED <<payVars, valVars, metrics, rowVars, clientVars,
                   extractVars, postVars>>

\* ------------------------------- trigger_payment, called on its own
\* What the POST can come to: the outcomes of a pass, and a redirection
\* that requests does not follow, with either body.
HttpOutcomes ==
    PostOutcomes \cup {[kind |-> "3xx", json |-> r] : r \in Responses}

Requests ==
    {[order_id |-> p[1], customer_name |-> p[2], amount |-> a,
      due_date |-> d, post |-> h] :
        p \in Parties, a \in {TotalOf("A"), TotalOf("B")}, d \in Days,
        h \in HttpOutcomes}

Post ==
    /\ reply.kind = "none"
    /\ reply' = trigger_payment(request.order_id, request.customer_name,
                                request.amount, request.due_date, request.post)
    /\ UNCHANGED request
    /\ UNCHANGED <<payVars, valVars, metrics, rowVars, clientVars,
                   extractVars, callerVars>>

\* --------------------------- the pass over a report with any due dates
\* A due_date value that is no day: a string that DATE_FORMAT does not
\* match, such as an ISO date.
Unparseable == 0

DateParties == {<<"O1", "A">>, <<"O1", "B">>}

DatedRows ==
    {[order_id |-> p[1], customer_name |-> p[2], due_date |-> d,
      total |-> TotalOf(p[2]), validation_status |-> s] :
        p \in DateParties, d \in Days \cup {Unparseable},
        s \in {"VALID", "INVALID"}}

DatedReports == SeqsUpTo(DatedRows, MaxRows)

\* a parse that lets every string through
to_datetime_coerce(validation_report_df) == [kind |-> "dates"]

\* pd.to_datetime(validation_report_df['due_date'], format=DATE_FORMAT):
\* the whole column is parsed, and one string out of format raises.
to_datetime(validation_report_df) ==
    IF \E i \in 1..Len(validation_report_df) :
           validation_report_df[i].due_date = Unparseable
    THEN [kind |-> "ValueError"]
    ELSE [kind |-> "dates"]

\* process_payments_and_past_due over such a report.  Line 61 parses the
\* column before it reads the clock and before any row is looked at; the
\* ValueError leaves the pass after line 77 has loaded the log.
PassDated ==
    IF to_datetime(report).kind = "ValueError"
    THEN /\ status' = "aborted"
         /\ existing' = load_existing_payment_log
         /\ past_due_entries' = <<>>
         /\ todays_entries' = <<>>
         /\ calls' = <<>>
         /\ rerun' = FALSE
         /\ UNCHANGED <<log, today, report, now_past>>
         /\ UNCHANGED <<valVars, metrics, rowVars, clientVars,
                        extractVars, callerVars, postVars>>
    ELSE Pass

\* ------------------- build_field_comparison of utils/invoice_helpers.py
Fields ==
    {"Missing PO", "Quantity Mismatch", "Rate Mismatch", "Overbilling",
     "Amount Mismatch", "Total Mismatch", "Match"}

\* The classifier gives a row three reasons at most.
MaxReasons == 3

\* What lies between two commas of a validation_result.
SplitPieces == Fields \cup {" " \o f : f \in Fields}

RECURSIVE JoinWith(_, _)
JoinWith(pieces, sep) ==
    IF Len(pieces) = 1 THEN pieces[1]
    ELSE pieces[1] \o sep \o JoinWith(Tail(pieces), sep)

\* str.split(','): the pieces, none of which holds a comma, that the
\* commas of the string separate.
split(validation_result) ==
    CHOOSE pieces \in SeqsUpTo(SplitPieces, MaxReasons) \ {<<>>} :
        JoinWith(pieces, ",") = validation_result

\* a strip that leaves the blank
strip_nothing(field) == field

\* str.strip() of a piece
strip(field) ==
    IF field \in Fields THEN field
    ELSE CHOOSE f \in Fields : " " \o f = field

\* The loop of lines 138-157.
RECURSIVE field_loop(_, _, _, _)
field_loop(row, mismatched_fields, i, field_comparison_) ==
    IF i > Len(mismatched_fields) THEN field_comparison_
    ELSE LET field_ == strip(mismatched_fields[i])
         IN  field_loop(row, mismatched_fields, i + 1,
                 IF field_ = "Quantity Mismatch"
                 THEN Append(field_comparison_,
                          [field |-> "Quantity",
                           invoice_value |-> <<"int", row.quantity_inv>>,
                           po_value |-> <<"int", row.quantity_po>>])
                 ELSE IF field_ = "Rate Mismatch"
                 THEN Append(field_comparison_,
                          [field |-> "Rate",
                           invoice_value |-> <<"$", row.rate_inv>>,
                           po_value |-> <<"$", row.rate_po>>])
                 ELSE IF field_ \in {"Amount Mismatch", "Total Mismatch",
                                     "Overbilling"}
                 THEN Append(field_comparison_,
                          [field |-> "Total Amount",
                           invoice_value |-> <<"$", row.amount>>,
                           po_value |-> <<"$", row.expected_amount>>])
                 ELSE field_comparison_)

build_field_comparison(row) ==
    field_loop(row, split(row.validation_result), 1, <<>>)

\* handle_invalid_invoice, line 168: the table for a row of the report
\* that is not VALID, when the recommendation is to escalate.
Compare ==
    /\ classified.kind = "row"
    /\ classified.row.validation_status # "VALID"
    /\ field_comparison.kind = "none"
    /\ field_comparison' =
           [kind |-> "table", rows |-> build_field_comparison(classified.row)]
    /\ UNCHANGED <<joined, classified>>
    /\ UNCHANGED <<payVars, valVars, metrics, clientVars, extractVars,
                   callerVars, postVars>>

\* ------------------------ render_tab1 of main.py, lines 100-115, repeated
MaxPasses == 3

FilesOf(rows) == {rows[k].file_name : k \in 1..Len(rows)}

\* One run of render_tab1 as far as the validation report: the invoices
\* are extracted if output/invoices.csv is not there, and the report is
\* made of the rows read from that file.  An exception of the extraction
\* ends the run; a file without rows yields no row of a report.
LoadOrExtract ==
    /\ runs < MaxPasses
    /\ runs' = runs + 1
    /\ IF ~invoices_csv.exists
       THEN \E parses \in [1..Len(folder) -> ParseOutcomes] :
               LET done == analyze_invoices(folder, parses)
               IN  /\ extraction' = [kind |-> done.kind, parses |-> parses,
                                     parsed |-> done.parsed]
                   /\ invoices_csv' =
                          IF done.kind = "return"
                          THEN [exists |-> TRUE, rows |-> done.invoices_df]
                          ELSE invoices_csv
                   /\ reported' =
                          IF done.kind = "return"
                          THEN [kind |-> "report",
                                files |-> FilesOf(done.invoices_df)]
                          ELSE [kind |-> "none"]
       ELSE /\ extraction' = [kind |-> "skipped"]
            /\ UNCHANGED invoices_csv
            /\ reported' = [kind |-> "report",
                            files |-> FilesOf(invoices_csv.rows)]
    /\ UNCHANGED folder
    /\ UNCHANGED <<payVars, valVars, metrics, rowVars, clientVars,
                   callerVars, postVars>>

\* Between two runs files are put into data/Invoice/ or taken out of it.
FolderChanges ==
    /\ \E files \in Folders : files # folder /\ folder' = files
    /\ UNCHANGED <<invoices_csv, extraction, runs, reported>>
    /\ UNCHANGED <<payVars, valVars, metrics, rowVars, clientVars,
                   callerVars, postVars>>

\* ------------------------------------------------------ specifications
\* No pass has run.
NoPass ==
    /\ today = 1
    /\ now_past = 1
    /\ past_due_entries = <<>>
    /\ todays_entries = <<>>
    /\ calls = <<>>
    /\ status = "none"
    /\ rerun = FALSE

\* The parts of the program a specification leaves aside.
NoPayments ==
    /\ NoPass
    /\ log = <<>>
    /\ existing = <<>>
    /\ report = <<>>

NoValidation ==
    /\ invoices_df = <<>>
    /\ po_df = <<>>
    /\ validation = [kind |-> "none"]

NoMetrics == metrics = [kind |-> "none"]

NoRow ==
    /\ joined = [kind |-> "none"]
    /\ classified = [kind |-> "none"]
    /\ field_comparison = [kind |-> "none"]

NoClient ==
    /\ api_keys = 1
    /\ current_key_index = 0
    /\ content_call =
          [pc |-> "idle", call |-> 0, max_retries |-> DefaultMaxRetries,
           tried |-> <<>>, result |-> [kind |-> "pending"]]

NoFolder ==
    /\ folder = <<>>
    /\ invoices_csv = [exists |-> FALSE, rows |-> <<>>]
    /\ extraction = [kind |-> "none"]
    /\ runs = 0
    /\ reported = [kind |-> "none"]

NoCaller ==
    /\ service = [kind |-> "none"]
    /\ outcome = [kind |-> "none"]

NoPost ==
    /\ request = [kind |-> "none"]
    /\ reply = [kind |-> "none"]

\* The validation report is any report.
InitPay ==
    /\ NoPass
    /\ log \in EarlierLogs
    /\ existing = log
    /\ report \in Reports

Init ==
    /\ InitPay
    /\ NoValidation
    /\ NoMetrics /\ NoRow /\ NoClient /\ NoFolder /\ NoCaller /\ NoPost

Next == Pass

Spec == Init /\ [][Next]_vars

\* validate_invoices applied to the invoice and purchase-order files.
InitValidate ==
    /\ NoPayments
    /\ invoices_df \in SeqsUpTo(LineItems, MaxLines)
    /\ po_df \in SeqsUpTo(PurchaseOrders, MaxOrders)
    /\ validation = [kind |-> "none"]
    /\ NoMetrics /\ NoRow /\ NoClient /\ NoFolder /\ NoCaller /\ NoPost

NextValidate == Validate

SpecValidate == InitValidate /\ [][NextValidate]_vars

\* render_tab1 run once over the two files, after earlier runs.
InitTab1 ==
    /\ NoPass
    /\ log \in EarlierLogs
    /\ existing = log
    /\ invoices_df \in SeqsUpTo(Tab1Items, MaxLines)
    /\ po_df \in SeqsUpTo(Tab1Orders, MaxOrders)
    /\ report \in EarlierReports(invoices_df)
    /\ validation = [kind |-> "none"]
    /\ NoMetrics /\ NoRow /\ NoClient /\ NoFolder /\ NoCaller /\ NoPost

NextTab1 == Tab1

SpecTab1 == InitTab1 /\ [][NextTab1]_vars

\* The classifier applied to one joined row.
InitClassify ==
    /\ joined \in {[kind |-> "row", row |-> r] : r \in JoinedRows}
    /\ classified = [kind |-> "none"]
    /\ field_comparison = [kind |-> "none"]
    /\ NoPayments
    /\ NoValidation
    /\ NoMetrics /\ NoClient /\ NoFolder /\ NoCaller /\ NoPost

NextClassify == Classify

SpecClassify == InitClassify /\ [][NextClassify]_vars

\* One client with its keys, and the calls of generate_content on it.
InitClient ==
    /\ api_keys \in 1..MaxKeys
    /\ current_key_index = 0
    /\ content_call =
          [pc |-> "idle", call |-> 0, max_retries |-> DefaultMaxRetries,
           tried |-> <<>>, result |-> [kind |-> "pending"]]
    /\ NoPayments
    /\ NoValidation
    /\ NoMetrics /\ NoRow /\ NoFolder /\ NoCaller /\ NoPost

NextClient ==
    \/ generate_content
    \/ AttemptSucceeds
    \/ AttemptFails
    \/ ReturnNone

SpecClient == InitClient /\ [][NextClient]_vars

\* The service answers or raises, and the loop goes on: no step of
\* generate_content waits for ever.
FairSpecClient ==
    /\ SpecClient
    /\ WF_vars(AttemptSucceeds \/ AttemptFails)
    /\ WF_vars(ReturnNone)

\* analyze_invoices over a folder, output/invoices.csv not being there.
InitExtract ==
    /\ folder \in Folders
    /\ invoices_csv = [exists |-> FALSE, rows |-> <<>>]
    /\ extraction = [kind |-> "none"]
    /\ runs = 0
    /\ reported = [kind |-> "none"]
    /\ NoPayments
    /\ NoValidation
    /\ NoMetrics /\ NoRow /\ NoClient /\ NoCaller /\ NoPost

NextExtract == Extract

SpecExtract == InitExtract /\ [][NextExtract]_vars

\* One caller of the service and what generate_content gave it.
InitCallers ==
    /\ service \in {[caller |-> c, response |-> r] :
                        c \in Callers, r \in ServiceResponses}
    /\ outcome = [kind |-> "none"]
    /\ NoPayments
    /\ NoValidation
    /\ NoMetrics /\ NoRow /\ NoClient /\ NoFolder /\ NoPost

NextCallers == Call

SpecCallers == InitCallers /\ [][NextCallers]_vars

\* trigger_payment called once.
InitPost ==
    /\ request \in Requests
    /\ reply = [kind |-> "none"]
    /\ NoPayments
    /\ NoValidation
    /\ NoMetrics /\ NoRow /\ NoClient /\ NoFolder /\ NoCaller

NextPost == Post

SpecPost == InitPost /\ [][NextPost]_vars

\* The passes over a report whose due dates are any strings.
InitDated ==
    /\ NoPass
    /\ log \in EarlierLogs
    /\ existing = log
    /\ report \in DatedReports
    /\ NoValidation
    /\ NoMetrics /\ NoRow /\ NoClient /\ NoFolder /\ NoCaller /\ NoPost

NextDated == PassDated

SpecDated == InitDated /\ [][NextDated]_vars

\* A joined row classified, and the escalation table built from it.
InitCompare == InitClassify

NextCompare == Classify \/ Compare

SpecCompare == InitCompare /\ [][NextCompare]_vars

\* render_tab1 run again and again over a folder that changes.
InitRender == InitExtract

NextRender == LoadOrExtract \/ FolderChanges

SpecRender == InitRender /\ [][NextRender]_vars

\* ---------------------------------------------------------- properties
\* The identities of a log, and what the latest pass added to the file.
LoggedIdentities(l) ==
    {<<l[i].order_id, l[i].customer_name>> : i \in 1..Len(l)}

NewPart == SubSeq(log, Len(existing) + 1, Len(log))

RowsOf(emitted) == {emitted[k].row : k \in 1..Len(emitted)}

\* Row i of the report is VALID, due before the day the past-due filter
\* read, and its identity is not in the log the pass loaded.
PastDueQualifies(i) ==
    /\ report[i].validation_status = "VALID"
    /\ report[i].due_date < now_past
    /\ Identity(report[i]) \notin LoggedIdentities(existing)

\* Row i is VALID, due on the day the due-today filter read, and its
\* identity is not in the log the pass loaded.
DueTodayQualifies(i) ==
    /\ report[i].validation_status = "VALID"
    /\ report[i].due_date = today
    /\ Identity(report[i]) \notin LoggedIdentities(existing)

PaymentFailed(k) == calls[k].call.result.kind = "RuntimeError"

\* C1: a pass that repeats, on the same day and the same report, a pass
\* that completed adds no log entry and calls the processor for no row.
C1_IdempotentRerun ==
    rerun => /\ past_due_entries = <<>>
             /\ todays_entries = <<>>
             /\ calls = <<>>
             /\ status = "completed"
             /\ log = existing

\* The repeated pass follows one that backfilled a row and paid another.
C1_Witness ==
    /\ rerun
    /\ \E i, j \in 1..Len(report) :
          /\ report[i].validation_status = "VALID"
          /\ report[i].due_date < today
          /\ report[j].validation_status = "VALID"
          /\ report[j].due_date = today
          /\ \E k \in 1..Len(log) :
                /\ Identity(log[k]) = Identity(report[j])
                /\ log[k].payment_mode = "Auto"

\* C2: the processor is invoked at most once per identity: no two calls of
\* one pass share an identity, and no call of a pass repeats the identity
\* of a call of the pass before it.
C2_AtMostOncePerIdentity ==
    [][/\ \A j, k \in 1..Len(calls') :
            j # k => Identity(calls'[j].call) # Identity(calls'[k].call)
       /\ \A j \in 1..Len(calls') : \A k \in 1..Len(calls) :
            Identity(calls'[j].call) # Identity(calls[k].call)]_vars

\* C3: no two entries of the persisted log share an identity.
C3_UniqueIdentityInLog ==
    \A j, k \in 1..Len(log) : j # k => Identity(log[j]) # Identity(log[k])

\* C4: when an external call fails for a due-today row, the pass still
\* persists the backfill entry of every past-due row it selected and the
\* Auto entry of every other due-today row it selected.
C4_FailureAbortsOneAction ==
    status = "aborted" =>
        \A i \in 1..Len(report) :
            /\ PastDueQualifies(i) =>
                  \E k \in 1..Len(NewPart) :
                      /\ Identity(NewPart[k]) = Identity(report[i])
                      /\ NewPart[k].payment_mode = "PreviouslyPaid"
            /\ (DueTodayQualifies(i) /\ i # calls[Len(calls)].row) =>
                  \E k \in 1..Len(NewPart) :
                      /\ Identity(NewPart[k]) = Identity(report[i])
                      /\ NewPart[k].payment_mode = "Auto"

\* C5: a pass in which the payment call fails for a row persists no entry
\* with the identity of that row, and the pass after it, on the same day
\* and the same report, calls the processor for that row again.
C5_FailedRowRetried ==
    [][/\ (status' = "aborted" /\ PaymentFailed(Len(calls))') =>
              Identity(report'[calls'[Len(calls')].row])
                  \notin LoggedIdentities(NewPart')
       /\ (/\ status = "aborted" /\ PaymentFailed(Len(calls))
           /\ report' = report
           /\ now_past = today /\ now_past' = today /\ today' = today) =>
              calls[Len(calls)].row \in RowsOf(calls')]_vars

\* C6: a completed pass leaves the log it loaded, unchanged and in place,
\* followed by one backfill entry per selected past-due row in report
\* order and then one Auto entry per selected due-today row in report
\* order; an aborted pass leaves the file as it was.
PastDueSelected == {i \in 1..Len(report) : PastDueQualifies(i)}

DueTodaySelected == {i \in 1..Len(report) : DueTodayQualifies(i)}

\* The k-th smallest member of a set of row numbers.
Nth(S, k) == CHOOSE i \in S : Cardinality({j \in S : j < i}) = k - 1

C6_AppendOnly ==
    /\ Len(log) >= Len(existing)
    /\ SubSeq(log, 1, Len(existing)) = existing
    /\ status # "completed" => log = existing
    /\ status = "completed" =>
          LET np == Cardinality(PastDueSelected)
              nt == Cardinality(DueTodaySelected)
          IN  /\ Len(NewPart) = np + nt
              /\ \A k \in 1..np :
                    /\ Identity(NewPart[k])
                           = Identity(report[Nth(PastDueSelected, k)])
                    /\ NewPart[k].payment_mode = "PreviouslyPaid"
              /\ \A k \in 1..nt :
                    /\ Identity(NewPart[np + k])
                           = Identity(report[Nth(DueTodaySelected, k)])
                    /\ NewPart[np + k].payment_mode = "Auto"

\* A completed pass added a backfill entry and an Auto entry behind a log
\* that already had an entry.
C6_Witness ==
    /\ status = "completed"
    /\ existing # <<>>
    /\ Len(NewPart) = 2
    /\ NewPart[1].payment_mode = "PreviouslyPaid"
    /\ NewPart[2].payment_mode = "Auto"

\* C7: for every VALID row due before today whose identity is not in the
\* loaded log, the pass emits exactly one entry, PreviouslyPaid with the
\* fixed transaction id, status and message, and no payment call is made
\* for that row; a completed pass has that entry in the file.
C7_PastDueBackfill ==
    \A i \in 1..Len(report) :
        (status # "none" /\ PastDueQualifies(i)) =>
            /\ Cardinality({k \in 1..Len(past_due_entries) :
                               past_due_entries[k].row = i}) = 1
            /\ \A k \in 1..Len(past_due_entries) :
                  past_due_entries[k].row = i =>
                      LET e == past_due_entries[k].entry
                      IN  /\ Identity(e) = Identity(report[i])
                          /\ e.payment_mode = "PreviouslyPaid"
                          /\ e.transaction_id = "PREVIOUSLY_PAID"
                          /\ e.status = "SUCCESS"
                          /\ e.message = "Auto-paid earlier"
                          /\ e.amount = report[i].total
                          /\ e.due_date = report[i].due_date
                          /\ status = "completed" =>
                                \E n \in 1..Len(NewPart) : NewPart[n] = e
            /\ i \notin RowsOf(calls)
            /\ i \notin RowsOf(todays_entries)

\* A completed pass backfilled a row while it paid for another.
C7_Witness ==
    /\ status = "completed"
    /\ calls # <<>>
    /\ \E i \in 1..Len(report) : PastDueQualifies(i)

\* C8 as claimed: for every VALID row due today whose identity is not in
\* the loaded log, the pass invokes the processor exactly once with the
\* row's order_id, customer_name, total and due_date and appends exactly
\* one Auto entry with the fields of the response.
CallsFor(i) == {k \in 1..Len(calls) : calls[k].row = i}

EntriesFor(i) == {k \in 1..Len(todays_entries) : todays_entries[k].row = i}

CallHasArgsOf(k, i) ==
    /\ calls[k].call.order_id = report[i].order_id
    /\ calls[k].call.customer_name = report[i].customer_name
    /\ calls[k].call.amount = report[i].total
    /\ calls[k].call.due_date = report[i].due_date

\* Entry n of the pass records the response of call k, a field the
\* response lacks being the empty string.
EntryRecords(n, k) ==
    LET e == todays_entries[n].entry
        body == calls[k].call.result.body
    IN  /\ e.payment_mode = "Auto"
        /\ Identity(e) = Identity(calls[k].call)
        /\ e.transaction_id = Get(body, "transaction_id")
        /\ e.status = Get(body, "status")
        /\ e.timestamp = Get(body, "timestamp")
        /\ e.message = Get(body, "message")

ActedRows ==
    RowsOf(past_due_entries) \cup RowsOf(todays_entries) \cup RowsOf(calls)

C9_OnlyEligibleRowsAct ==
    /\ \A i \in ActedRows :
          /\ i \in 1..Len(report)
          /\ report[i].validation_status = "VALID"
          /\ report[i].due_date <= today
          /\ Identity(report[i]) \notin LoggedIdentities(existing)
    /\ RowsOf(past_due_entries)
          \cap (RowsOf(todays_entries) \cup RowsOf(calls)) = {}
    /\ Len(NewPart) <= Len(past_due_entries) + Len(todays_entries)
    /\ \A m \in 1..Len(NewPart) :
          \E i \in ActedRows : Identity(NewPart[m]) = Identity(report[i])

\* A pass acted on one row and on nothing else, the other row being
\* INVALID, due after today, or of an identity the log already had under
\* another due date.
C9_Witness ==
    /\ Cardinality(ActedRows) = 1
    /\ Len(report) = 2
    /\ \E i \in 1..2 :
          /\ i \notin ActedRows
          /\ report[i].validation_status = "VALID"
          /\ report[i].due_date = today
          /\ \E k \in 1..Len(existing) :
                /\ Identity(existing[k]) = Identity(report[i])
                /\ existing[k].due_date # report[i].due_date

\* C10: when the purchase orders have unique keys, validate_invoices
\* returns a report with one row per invoice line item.
C10_JoinCompleteness ==
    (validation.kind # "none" /\ KeysUnique(po_df)) =>
        /\ validation.kind = "report"
        /\ Len(validation.rows) = Len(invoices_df)

\* C11: when two purchase orders share a key, validate_invoices raises and
\* returns no report, and the run of render_tab1 leaves the report file and
\* the payment log as they were and takes no payment action: no entry is
\* built and the processor is not called.
C11_AmbiguousOrdersFatal ==
    [][~KeysUnique(po_df) =>
          /\ validation'.kind = "MergeError"
          /\ report' = report
          /\ log' = log
          /\ UNCHANGED <<past_due_entries, todays_entries, calls, status>>]_vars

\* The run found two orders of one key beside invoice lines of distinct
\* keys, one of them due on the first day, a report file and a log that
\* earlier runs had written.
C11_Witness ==
    /\ validation.kind = "MergeError"
    /\ ~KeysUnique(po_df)
    /\ KeysUnique(invoices_df)
    /\ \E i \in 1..Len(invoices_df) : invoices_df[i].due_date = 1
    /\ report # <<>>
    /\ log # <<>>

\* The purchase-order cells of the row the classifier was given.
POMissing ==
    \/ joined.row.quantity_po = NaN
    \/ joined.row.rate_po = NaN
    \/ joined.row.expected_amount = NaN

\* C12: for a joined row in which the quantity, the rate or the expected
\* amount of the purchase order is missing, the classifier yields the
\* result "Missing PO" and nothing else, with status INVALID: no comparison
\* of quantity, rate or amount adds a reason.
C12_MissingPOShortCircuit ==
    (classified.kind = "row" /\ POMissing) =>
        /\ classified.row.validation_result = "Missing PO"
        /\ classified.row.validation_status = "INVALID"

\* The classified row lacks the rate of the order only, and its quantities
\* and amounts differ.
C12_Witness ==
    /\ classified.kind = "row"
    /\ joined.row.rate_po = NaN
    /\ joined.row.quantity_po # NaN
    /\ joined.row.expected_amount # NaN
    /\ joined.row.quantity_inv # joined.row.quantity_po
    /\ joined.row.amount > joined.row.expected_amount
    /\ classified.row.validation_result = "Missing PO"

\* C13: for a joined row with the purchase order present, the reasons are
\* "Quantity Mismatch" if the quantities differ, then "Rate Mismatch" if
\* the rates differ, then "Overbilling" if the amount exceeds the expected
\* amount or else "Amount Mismatch" if it falls short of it, in that order,
\* and a result with reasons is those reasons joined with ", ".
C13_ReasonOrdering ==
    (classified.kind = "row" /\ ~POMissing) =>
        LET r == joined.row
            qm == r.quantity_inv # r.quantity_po
            rm == r.rate_inv # r.rate_po
            ar == IF r.amount > r.expected_amount THEN "Overbilling"
                  ELSE IF r.amount < r.expected_amount
                       THEN "Amount Mismatch" ELSE ""
        IN  (qm \/ rm \/ ar # "") =>
                classified.row.validation_result =
                    (CASE qm /\ rm /\ ar # "" ->
                              "Quantity Mismatch, Rate Mismatch, " \o ar
                       [] qm /\ rm /\ ar = "" ->
                              "Quantity Mismatch, Rate Mismatch"
                       [] qm /\ ~rm /\ ar # "" -> "Quantity Mismatch, " \o ar
                       [] qm /\ ~rm /\ ar = "" -> "Quantity Mismatch"
                       [] ~qm /\ rm /\ ar # "" -> "Rate Mismatch, " \o ar
                       [] ~qm /\ rm /\ ar = "" -> "Rate Mismatch"
                       [] OTHER -> ar)

\* Quantity 150 against 100, equal rates of 63.11, amount 9466.50 against
\* 6311.00: "Quantity Mismatch, Overbilling".
C13_Witness ==
    /\ classified.kind = "row"
    /\ joined.row.quantity_inv = 150 /\ joined.row.quantity_po = 100
    /\ joined.row.rate_inv = 6311 /\ joined.row.rate_po = 6311
    /\ joined.row.amount = 946650 /\ joined.row.expected_amount = 631100
    /\ classified.row.validation_result = "Quantity Mismatch, Overbilling"
    /\ classified.row.validation_status = "INVALID"

\* C14: a row is VALID exactly when its result is "Match", which is exactly
\* when the purchase order is present and quantity, rate and amount equal
\* those of the order; any other row is INVALID with a result that is
\* neither "Match" nor the empty string.
C14_ValidIffMatch ==
    classified.kind = "row" =>
        LET r == joined.row
            c == classified.row
            equal == /\ ~POMissing
                     /\ r.quantity_inv = r.quantity_po
                     /\ r.rate_inv = r.rate_po
                     /\ r.amount = r.expected_amount
        IN  /\ c.validation_status \in {"VALID", "INVALID"}
            /\ (c.validation_status = "VALID")
                   <=> (c.validation_result = "Match")
            /\ (c.validation_result = "Match") <=> equal
            /\ c.validation_result # ""

\* The classified row agrees with its order in quantity, rate and amount.
C14_Witness ==
    /\ classified.kind = "row"
    /\ ~POMissing
    /\ joined.row.quantity_inv = joined.row.quantity_po
    /\ joined.row.rate_inv = joined.row.rate_po
    /\ joined.row.amount = joined.row.expected_amount
    /\ classified.row.validation_result = "Match"
    /\ classified.row.validation_status = "VALID"

\* C15: the metrics render_tab1 computes over the report and the log have
\* total = the number of report rows, valid = the number of VALID rows and
\* flagged = total - valid, so that valid + flagged = total and flagged is
\* the number of INVALID rows.
C15_MetricsConsistency ==
    metrics.kind = "metrics" =>
        LET valid_rows == {i \in 1..Len(report) :
                              report[i].validation_status = "VALID"}
            invalid_rows == {i \in 1..Len(report) :
                                report[i].validation_status = "INVALID"}
        IN  /\ metrics.total_invoices = Len(report)
            /\ metrics.valid_invoices = Cardinality(valid_rows)
            /\ metrics.flagged_invoices
                   = metrics.total_invoices - metrics.valid_invoices
            /\ metrics.valid_invoices + metrics.flagged_invoices
                   = metrics.total_invoices
            /\ metrics.flagged_invoices = Cardinality(invalid_rows)

\* The metrics of a report with a VALID and an INVALID row, over a log
\* that is not empty.
C15_Witness ==
    /\ metrics.kind = "metrics"
    /\ metrics.valid_invoices = 1
    /\ metrics.flagged_invoices = 1
    /\ log # <<>>

\* C16: after a completed pass every VALID report row due before today has
\* a log entry of its identity whose status is "SUCCESS".
C16_NoValidPastDueUnpaid ==
    status = "completed" =>
        \A i \in 1..Len(report) :
            (report[i].validation_status = "VALID"
                 /\ report[i].due_date < today) =>
                \E k \in 1..Len(log) :
                    /\ Identity(log[k]) = Identity(report[i])
                    /\ log[k].status = "SUCCESS"

\* What holds of a call of generate_content at every step.
BoundedRetry ==
    LET c == content_call
        n == Len(c.tried)
        failed == \A k \in 1..n : ~c.tried[k].ok
    IN  /\ n <= c.max_retries
        /\ \A k \in 1..(n - 1) :
              /\ ~c.tried[k].ok
              /\ c.tried[k + 1].key = (c.tried[k].key + 1) % api_keys
        /\ (n > 0 /\ ~c.tried[n].ok) =>
              current_key_index = (c.tried[n].key + 1) % api_keys
        /\ (n > 0 /\ c.tried[n].ok) =>
              /\ c.pc = "returned"
              /\ c.result = [kind |-> "ResponseWrapper",
                             text |-> <<c.call, n>>]
              /\ current_key_index = c.tried[n].key
        /\ c.pc = "loop" => c.result.kind = "pending"
        /\ c.pc = "returned" =>
              IF failed
              THEN n = c.max_retries /\ c.result = [kind |-> "None"]
              ELSE c.result.kind = "ResponseWrapper"

\* C17: a call of generate_content makes at most max_retries attempts and
\* returns; it returns the text of the first attempt that succeeds and makes
\* no attempt after it, moves the cursor to the next key after every attempt
\* that fails, and returns None, and nothing else, once max_retries
\* attempts have failed.
C17_BoundedRetry ==
    /\ []BoundedRetry
    /\ (content_call.pc = "loop") ~> (content_call.pc = "returned")

\* A call with the default max_retries returned None after three failed
\* attempts on three keys.
C17_Witness ==
    /\ content_call.pc = "returned"
    /\ content_call.max_retries = DefaultMaxRetries
    /\ content_call.result = [kind |-> "None"]
    /\ Len(content_call.tried) = DefaultMaxRetries
    /\ api_keys >= 3
    /\ content_call.call = 2

\* C18: when analyze_invoices returns, output/invoices.csv holds the line
\* items of every PDF of the folder that the service extracts, those listed
\* after a PDF for which parse_invoice_with_genai returned None included.
C18_BatchContinues ==
    extraction.kind = "return" =>
        \A i \in 1..Len(folder) :
            (IsPdf(folder[i]) /\ extraction.parses[i] = "dict") =>
                \A k \in 1..Len(Flatten(folder[i])) :
                    \E n \in 1..Len(invoices_csv.rows) :
                        invoices_csv.rows[n] = Flatten(folder[i])[k]

\* C19: for each of the three callers, a response text that is no JSON once
\* its fences are removed ends in an error whose kind differs from the kind
\* of what the caller does when the service is unavailable (None).
C19_ParseErrorDistinct ==
    (/\ outcome.kind # "none"
     /\ service.response.kind = "text"
     /\ \A i \in 1..Len(service.response.text) :
            service.response.text[i] # "{}") =>
        /\ outcome.kind # "return"
        /\ outcome.kind
               # CallerOutcome(service.caller, [kind |-> "None"]).kind

\* C20: trigger_payment returns the body of the processor's answer,
\* unchanged, when the POST is answered with a 2xx status, and raises,
\* returning nothing, when it is answered with any other status or the
\* transport fails.
C20_ResponseOrFatal ==
    reply.kind # "none" =>
        IF request.post.kind = "2xx"
        THEN reply = [kind |-> "return", body |-> request.post.json]
        ELSE reply = [kind |-> "RuntimeError"]

\* C21: when a row of the report, VALID or INVALID, has a due_date that
\* is not in the fixed format, a pass selects no action: it ends aborted,
\* with no payment call and no entry, and leaves the persisted log as it
\* was.
HasUnparseable(validation_report_df) ==
    \E i \in 1..Len(validation_report_df) :
        validation_report_df[i].due_date = Unparseable

C21_BadDateFatal ==
    [][HasUnparseable(report) =>
          /\ status' = "aborted"
          /\ calls' = <<>>
          /\ past_due_entries' = <<>>
          /\ todays_entries' = <<>>
          /\ log' = log]_vars

\* An aborted pass over a report in which an INVALID row has the bad date
\* and a VALID row of an identity not in the log is due on the day.
C21_Witness ==
    /\ status = "aborted"
    /\ \E i, j \in 1..Len(report) :
          /\ report[i].due_date = Unparseable
          /\ report[i].validation_status = "INVALID"
          /\ report[j].due_date = today
          /\ report[j].validation_status = "VALID"
          /\ ~already_paid(log, report[j])

\* C22: the escalation table of a row has one line for each reason of its
\* validation_result that is a quantity, rate or amount finding (Quantity,
\* Rate, Total Amount, with the cells of the invoice and of the order), in
\* the order of the reasons; it has three lines at most, one Total Amount
\* line at most, and none for "Missing PO".
ReasonsOf(row) ==
    IF _check_missing_po(row) THEN <<"Missing PO">>
    ELSE _get_validation_reasons(row)

FieldOf(reason) ==
    CASE reason = "Quantity Mismatch" -> "Quantity"
      [] reason = "Rate Mismatch" -> "Rate"
      [] reason \in {"Overbilling", "Amount Mismatch"} -> "Total Amount"

TableFields(rows) == [i \in 1..Len(rows) |-> rows[i].field]

C23_ReturnedCallsRecorded ==
    status # "none" =>
        \A k \in 1..Len(calls) :
            ~PaymentFailed(k) =>
                Identity(calls[k].call) \in LoggedIdentities(log)

\* C24: when the processor answers a call with a status that is not
\* "SUCCESS", the pass still appends an Auto entry of that identity with
\* the status and the fields of the answer; and no pass calls the
\* processor for an identity that the log already has.
AnsweredNotSuccess(k) ==
    /\ ~PaymentFailed(k)
    /\ Get(calls[k].call.result.body, "status") # "SUCCESS"

AppendedFor(k) ==
    \E m \in 1..Len(NewPart) :
        /\ NewPart[m].payment_mode = "Auto"
        /\ Identity(NewPart[m]) = Identity(calls[k].call)
        /\ NewPart[m].status = Get(calls[k].call.result.body, "status")
        /\ NewPart[m].transaction_id =
               Get(calls[k].call.result.body, "transaction_id")

\* A pass calls the processor for no identity of the log it found.
NeverCalledAgain ==
    \A k \in 1..Len(calls') :
        Identity(calls'[k].call) \notin LoggedIdentities(log)

C24_LoggedWhateverStatus ==
    [][/\ \A k \in 1..Len(calls') :
             AnsweredNotSuccess(k)' => AppendedFor(k)'
       /\ NeverCalledAgain]_vars

\* C25: after a completed pass every VALID row due on or before the day of
\* the pass has a log entry of its identity, and no entry of the log is of
\* a row due after that day.
C25_LoggedByDueDate ==
    /\ status = "completed" =>
          \A i \in 1..Len(report) :
              (report[i].validation_status = "VALID"
                   /\ report[i].due_date <= today) =>
                  Identity(report[i]) \in LoggedIdentities(log)
    /\ \A k \in 1..Len(log) : log[k].due_date <= today

\* C26: analyze_invoices runs only while output/invoices.csv is absent;
\* it writes the file whenever no parse raised, also when a parse returned
\* None and stopped it early; a run of render_tab1 that finds the file
\* leaves it as it is and reports its files only, whatever the folder
\* holds by then.
Ran == extraction'.kind \in {"return", "ValueError"} /\ runs' # runs

NoParseRaised ==
    \A k \in 1..Len(extraction'.parsed) :
        extraction'.parses[extraction'.parsed[k]] # "ValueError"

ExtractsWhileAbsent == Ran => ~invoices_csv.exists

WritesOnReturn ==
    (Ran /\ NoParseRaised) =>
        /\ extraction'.kind = "return"
        /\ invoices_csv'.exists
        /\ reported' = [kind |-> "report",
                        files |-> FilesOf(invoices_csv'.rows)]

FileIsFinal ==
    invoices_csv.exists =>
        /\ invoices_csv' = invoices_csv
        /\ runs' # runs =>
              /\ extraction'.kind = "skipped"
              /\ reported' = [kind |-> "report",
                              files |-> FilesOf(invoices_csv.rows)]

\* C26 as stated: and after the first run of render_tab1 that attempted the
\* extraction, no later run extracts.
C26_ExtractOnce ==
    [][/\ ExtractsWhileAbsent
       /\ WritesOnReturn
       /\ FileIsFinal
       /\ (extraction.kind # "none" /\ runs' # runs) =>
              extraction'.kind = "skipped"]_vars

\* C26 as amended: no later run extracts after the first attempt that
\* returned; an attempt that a parse error ended wrote no file, and the
\* next run extracts again.
C26_ExtractOnceAmended ==
    [][/\ ExtractsWhileAbsent
       /\ WritesOnReturn
       /\ FileIsFinal
       /\ (extraction.kind \in {"return", "skipped"} /\ runs' # runs) =>
              extraction'.kind = "skipped"
       /\ (extraction.kind = "ValueError" /\ runs' # runs) =>
              /\ ~invoices_csv.exists
              /\ extraction'.kind \in {"return", "ValueError"}]_vars

\* A run skipped the extraction and reported a partial file: the first
\* extraction stopped at a None, and the folder holds a PDF the report
\* lacks.
C26_Witness ==
    /\ extraction.kind = "skipped"
    /\ invoices_csv.exists
    /\ reported.kind = "report"
    /\ reported.files = {"a.pdf"}
    /\ \E i \in 1..Len(folder) : folder[i] = "b.pdf"

\* C27: the cursor of a client with n >= 1 keys is always one of 0..n-1;
\* each attempt uses the key under the cursor, a failed attempt moves the
\* cursor on by one modulo n and a successful one leaves it; entering and
\* leaving generate_content leave it too, so a call starts on the key the
\* call before it ended on; and a call with fewer retries than keys does
\* not try every key.
KeysTried ==
    {content_call.tried[k].key : k \in 1..Len(content_call.tried)}

CursorInvariant ==
    /\ current_key_index \in 0..(api_keys - 1)
    /\ api_keys > content_call.max_retries =>
          KeysTried # 0..(api_keys - 1)

CursorStep ==
    LET tried == content_call.tried
        tried_ == content_call'.tried
    IN  IF Len(tried_) = Len(tried) + 1
        THEN /\ tried_[Len(tried_)].key = current_key_index
             /\ current_key_index' =
                    IF tried_[Len(tried_)].ok
                    THEN current_key_index
                    ELSE (current_key_index + 1) % api_keys
        ELSE current_key_index' = current_key_index

C27_RotationCursor == []CursorInvariant /\ [][CursorStep]_vars

\* The second call on a client of four keys, after a call whose three
\* attempts failed: it starts on the last key and goes round to the first.
C27_Witness ==
    /\ api_keys = 4
    /\ content_call.call = 2
    /\ Len(content_call.tried) = 2
    /\ content_call.tried[1].key = 3
    /\ content_call.tried[2].key = 0
    /\ current_key_index = 1

====
